---------------------------- MODULE Spec2Model ----------------------------
(***************************************************************************)
(* Model of claude_victor: the in-memory PlanStore (memory/plan_store.py)  *)
(* and the PlanningWorkflow state machine (workflow/planning.py) on top of *)
(* it.                                                                     *)
(*                                                                         *)
(* Python objects have identity: the store's dict and a workflow's context *)
(* hold references to Plan objects, and approve_plan/complete_planning     *)
(* assign to a field of the object the context refers to.  The model keeps *)
(* a heap of Plan objects; the store and the contexts hold object ids.     *)
(* Objects nobody refers to any more are dropped from the heap, as the     *)
(* interpreter's reference counting does.                                  *)
(*                                                                         *)
(* datetime.utcnow().isoformat() is modelled by the integer clock `now`:   *)
(* the ISO-8601 strings of one era compare in the order of their instants, *)
(* and two calls may read the same instant (Tick is a separate step).      *)
(***************************************************************************)
EXTENDS Integers, Sequences

(* ------------------------------ bounds -------------------------------- *)

\* Longest note log of a session explored where other callers use the store too.
MaxNotes == 5

\* Longest note log of a session explored where one other caller saves plans.
MaxNotesDeep == 6

\* Longest note log of a session explored where the workflow is alone.
MaxNotesSolo == 8

\* Longest note log of a session explored while the clock runs.
MaxNotesTimed == 3

\* Longest note log of a session explored where two workflows share the store.
MaxNotesPair == 2

\* Largest clock reading.
MaxClock == 1

\* Plan names / task names, contents and statuses the callers use.
NameSeq == <<"feature-x", "task-b", "plan-3">>

Names == {NameSeq[i] : i \in DOMAIN NameSeq}

Contents == {"draft text", "v2"}

Statuses == {"draft", "approved", "completed"}

\* The workflow instances that share one PlanStore.
WorkflowSeq == <<"w1", "w2">>

Workflows == {WorkflowSeq[i] : i \in DOMAIN WorkflowSeq}

(* --------------------------- planning.py ------------------------------ *)

INITIAL == "initial"

EXPLORING == "exploring"

DESIGNING == "designing"

REVIEWING == "reviewing"

APPROVED == "approved"

IMPLEMENTING == "implementing"

COMPLETED == "completed"

PlanningState ==
    {INITIAL, EXPLORING, DESIGNING, REVIEWING, APPROVED, IMPLEMENTING, COMPLETED}

\* None, as the value of PlanningContext.plan and of a store lookup.
None == 0

\* PlanningWorkflow._context = None.
NoContext ==
    [active |-> FALSE, task_name |-> "", state |-> "", plan |-> None, notes |-> <<>>]

\* PlanningContext(task_name, state, plan, notes).
PlanningContext(task_name, state, plan, notes) ==
    [active |-> TRUE, task_name |-> task_name, state |-> state, plan |-> plan,
     notes |-> notes]

VARIABLES
    heap,    \* object id -> Plan(name, content, created_at, updated_at, status)
    store,   \* PlanStore._local_store: name -> object id
    order,   \* the keys of _local_store in the dict's order (insertion order)
    ctx,     \* workflow -> its _context (NoContext for None)
    now,     \* the reading datetime.utcnow() gives
    last,    \* the call made last and how it ended
    written  \* history: name -> the content and status last written to the store under it

vars == <<heap, store, order, ctx, now, last, written>>

\* A transition table with a slip: IMPLEMENTING is also allowed from REVIEWING.
valid_transitions_direct(state) ==
    CASE state = INITIAL -> {EXPLORING}
      [] state = EXPLORING -> {DESIGNING}
      [] state = DESIGNING -> {REVIEWING, EXPLORING}
      [] state = REVIEWING -> {APPROVED, DESIGNING, IMPLEMENTING}
      [] state = APPROVED -> {IMPLEMENTING}
      [] state = IMPLEMENTING -> {COMPLETED, REVIEWING}
      [] OTHER -> {}

\* A transition table with a slip: DESIGNING is also allowed from INITIAL.
valid_transitions_skip(state) ==
    CASE state = INITIAL -> {EXPLORING, DESIGNING}
      [] state = EXPLORING -> {DESIGNING}
      [] state = DESIGNING -> {REVIEWING, EXPLORING}
      [] state = REVIEWING -> {APPROVED, DESIGNING}
      [] state = APPROVED -> {IMPLEMENTING}
      [] state = IMPLEMENTING -> {COMPLETED, REVIEWING}
      [] OTHER -> {}

\* A transition table with a slip: COMPLETED can be reopened for review.
valid_transitions_reopen(state) ==
    CASE state = INITIAL -> {EXPLORING}
      [] state = EXPLORING -> {DESIGNING}
      [] state = DESIGNING -> {REVIEWING, EXPLORING}
      [] state = REVIEWING -> {APPROVED, DESIGNING}
      [] state = APPROVED -> {IMPLEMENTING}
      [] state = IMPLEMENTING -> {COMPLETED, REVIEWING}
      [] state = COMPLETED -> {REVIEWING}
      [] OTHER -> {}

\* A transition table with a slip: APPROVED leads to COMPLETED, not to IMPLEMENTING.
valid_transitions_noimpl(state) ==
    CASE state = INITIAL -> {EXPLORING}
      [] state = EXPLORING -> {DESIGNING}
      [] state = DESIGNING -> {REVIEWING, EXPLORING}
      [] state = REVIEWING -> {APPROVED, DESIGNING}
      [] state = APPROVED -> {COMPLETED}
      [] state = IMPLEMENTING -> {COMPLETED, REVIEWING}
      [] OTHER -> {}

\* The dict lookup valid_transitions.get(state, []) of transition_to.
valid_transitions(state) ==
    CASE state = INITIAL -> {EXPLORING}
      [] state = EXPLORING -> {DESIGNING}
      [] state = DESIGNING -> {REVIEWING, EXPLORING}
      [] state = REVIEWING -> {APPROVED, DESIGNING}
      [] state = APPROVED -> {IMPLEMENTING}
      [] state = IMPLEMENTING -> {COMPLETED, REVIEWING}
      [] state = COMPLETED -> {}
      [] OTHER -> {}

\* A status derivation with a slip: the COMPLETED branch is missing.
save_status_short(state) ==
    IF state = APPROVED THEN "approved" ELSE "draft"

\* The status save_plan derives from the context state.
save_status(state) ==
    IF state = APPROVED THEN "approved"
    ELSE IF state = COMPLETED THEN "completed"
    ELSE "draft"

\* A start with a slip: a stored plan is attached but the session starts at INITIAL.
start_context_initial(task_name, existing_plan) ==
    IF existing_plan # None
    THEN PlanningContext(task_name, INITIAL, existing_plan,
                         <<"Loaded existing plan from memory-keeper">>)
    ELSE PlanningContext(task_name, INITIAL, None, <<"Started new planning session">>)

\* The context start_planning builds from the result of load_plan.
start_context(task_name, existing_plan) ==
    IF existing_plan # None
    THEN PlanningContext(task_name, REVIEWING, existing_plan,
                         <<"Loaded existing plan from memory-keeper">>)
    ELSE PlanningContext(task_name, INITIAL, None, <<"Started new planning session">>)

\* A state check with a slip: approval is also accepted while designing.
approve_state_ok_designing(c) == c.state \in {REVIEWING, DESIGNING}

\* approve_plan's check of the state.
approve_state_ok(c) == c.state = REVIEWING

\* A plan check with a slip: the check is missing.
approve_has_plan_unchecked(c) == TRUE

\* approve_plan's check that a plan is attached.
approve_has_plan(c) == c.plan # None

(* --------------------------- plan_store.py ---------------------------- *)

\* Plan(name, content, created_at, updated_at, status).
Plan(name, content, created_at, updated_at, status) ==
    [name |-> name, content |-> content, created_at |-> created_at,
     updated_at |-> updated_at, status |-> status]

\* The references held, in a fixed order: the store's by name, then the contexts'.
Refs(st, cx) ==
    [i \in 1 .. (Len(NameSeq) + Len(WorkflowSeq)) |->
        IF i <= Len(NameSeq)
        THEN (IF NameSeq[i] \in DOMAIN st THEN st[NameSeq[i]] ELSE None)
        ELSE cx[WorkflowSeq[i - Len(NameSeq)]].plan]

\* The identity a newly constructed object gets: one that no reference holds.
NewObj == Len(NameSeq) + Len(WorkflowSeq) + 1

\* Object identities carry no information beyond equality: after every call each
\* object still referred to is renamed to the position of the first reference to
\* it in Refs, and the objects nobody refers to are dropped.
Collect(h, st, cx) ==
    LET refs == Refs(st, cx)
        Rename(o) == IF o = None THEN None
                     ELSE CHOOSE i \in DOMAIN refs :
                              refs[i] = o /\ \A k \in 1 .. (i - 1) : refs[k] # o
    IN  [heap |-> [i \in {j \in DOMAIN refs : refs[j] # None /\ Rename(refs[j]) = j} |->
                      h[refs[i]]],
         store |-> [n \in DOMAIN st |-> Rename(st[n])],
         ctx |-> [w \in DOMAIN cx |-> [cx[w] EXCEPT !.plan = Rename(@)]]]

\* The keys of a dict in its order, after a call that started with the keys in
\* order ks and left the dict st: a key assigned again keeps its place, a deleted
\* key leaves, a new key goes to the end (a call inserts at most one key).
KeysAfter(ks, st) ==
    LET kept == SelectSeq(ks, LAMBDA k : k \in DOMAIN st)
        fresh == DOMAIN st \ {ks[i] : i \in DOMAIN ks}
    IN  IF fresh = {} THEN kept ELSE Append(kept, CHOOSE k \in fresh : TRUE)

\* The state after a call that leaves heap h, store st and contexts cx.  The
\* history `written` follows the store: a key that got a new object has been
\* written with that object's fields, a key that is gone has no last write.
Leaves(h, st, cx) ==
    LET c == Collect(h, st, cx)
    IN  /\ heap' = c.heap
        /\ store' = c.store
        /\ order' = KeysAfter(order, st)
        /\ ctx' = c.ctx
        /\ written' = [n \in DOMAIN st |->
                          IF st[n] = NewObj
                          THEN [content |-> h[NewObj].content, status |-> h[NewObj].status]
                          ELSE written[n]]

\* dict assignment d[k] = v.
DictSet(d, k, v) == [x \in DOMAIN d \cup {k} |-> IF x = k THEN v ELSE d[x]]

\* A del with a slip: every key goes.
DictDel_clear(d, k) == <<>>

\* A del with a slip: the key stays.
DictDel_keep(d, k) == d

\* del d[k].
DictDel(d, k) == [x \in DOMAIN d \ {k} |-> d[x]]

\* A save with a slip: updated_at is kept from the existing plan as created_at is.
StoreSavePlan_stale(h, st, name, content, status, t) ==
    LET created_at == IF name \in DOMAIN st THEN h[st[name]].created_at ELSE t
        updated_at == IF name \in DOMAIN st THEN h[st[name]].updated_at ELSE t
    IN  [heap |-> DictSet(h, NewObj, Plan(name, content, created_at, updated_at, status)),
         store |-> DictSet(st, name, NewObj),
         ret |-> NewObj]

\* A save with a slip: created_at is taken from the clock on every save.
StoreSavePlan_recreate(h, st, name, content, status, t) ==
    [heap |-> DictSet(h, NewObj, Plan(name, content, t, t, status)),
     store |-> DictSet(st, name, NewObj),
     ret |-> NewObj]

\* PlanStore.save_plan: heap and store afterwards, and the object returned.
StoreSavePlan(h, st, name, content, status, t) ==
    LET created_at == IF name \in DOMAIN st THEN h[st[name]].created_at ELSE t
    IN  [heap |-> DictSet(h, NewObj, Plan(name, content, created_at, t, status)),
         store |-> DictSet(st, name, NewObj),
         ret |-> NewObj]

\* PlanStore.load_plan.
StoreLoadPlan(st, name) == IF name \in DOMAIN st THEN st[name] ELSE None

\* An update_status with a slip: the status is assigned to the stored object and
\* nothing is saved.
StoreUpdateStatus_assign(h, st, name, status, t) ==
    IF name \in DOMAIN st
    THEN [heap |-> [h EXCEPT ![st[name]].status = status], store |-> st, ret |-> st[name]]
    ELSE [heap |-> h, store |-> st, ret |-> None]

\* An update_status with a slip: a missing plan is created, with no content.
StoreUpdateStatus_upsert(h, st, name, status, t) ==
    StoreSavePlan(h, st, name, IF name \in DOMAIN st THEN h[st[name]].content ELSE "",
                  status, t)

\* PlanStore.update_status.
StoreUpdateStatus(h, st, name, status, t) ==
    IF name \in DOMAIN st
    THEN StoreSavePlan(h, st, name, h[st[name]].content, status, t)
    ELSE [heap |-> h, store |-> st, ret |-> None]

\* An Optional[str] argument: <<>> is None, <<s>> is the string s.
NoStatus == <<>>

\* The test `if status:` of list_plans: None and the empty string are false.
status_given(status) == status # NoStatus /\ status[1] # ""

\* A sort with a slip: the list is returned in the dict's order, unsorted.
sorted_missing(h, plans) == plans

RECURSIVE sorted_reverse(_, _)
\* sorted(plans, key=lambda p: p.updated_at, reverse=True): the sort is stable, also
\* with reverse=True, so plans with equal updated_at keep the order they came in.
sorted_reverse(h, plans) ==
    IF plans = <<>> THEN <<>>
    ELSE LET p == plans[Len(plans)]
             rest == sorted_reverse(h, SubSeq(plans, 1, Len(plans) - 1))
         IN  SelectSeq(rest, LAMBDA q : h[q].updated_at >= h[p].updated_at)
             \o <<p>>
             \o SelectSeq(rest, LAMBDA q : h[q].updated_at < h[p].updated_at)

\* PlanStore.list_plans: the objects returned, in order.
StoreListPlans(h, st, ks, status) ==
    LET values == [i \in DOMAIN ks |-> st[ks[i]]]
        plans == IF status_given(status)
                 THEN SelectSeq(values, LAMBDA p : h[p].status = status[1])
                 ELSE values
    IN  sorted_reverse(h, plans)

\* An export with a slip: the status is left out of the dict.
StoreExportPlan_nostatus(h, st, name) ==
    LET plan == StoreLoadPlan(st, name)
    IN  IF plan # None
        THEN [name |-> h[plan].name, content |-> h[plan].content,
              created_at |-> h[plan].created_at, updated_at |-> h[plan].updated_at]
        ELSE None

\* PlanStore.export_plan: the dict returned (None if there is no such plan).
StoreExportPlan(h, st, name) ==
    LET plan == StoreLoadPlan(st, name)
    IN  IF plan # None
        THEN [name |-> h[plan].name, content |-> h[plan].content,
              created_at |-> h[plan].created_at, updated_at |-> h[plan].updated_at,
              status |-> h[plan].status]
        ELSE None

\* An import with a slip: the plan is filed under the dict's name but is built
\* without it.
StoreImportPlan_unnamed(h, st, data, t, t2) ==
    LET plan == Plan("", data.content,
                     IF "created_at" \in DOMAIN data THEN data.created_at ELSE t,
                     IF "updated_at" \in DOMAIN data THEN data.updated_at ELSE t2,
                     IF "status" \in DOMAIN data THEN data.status ELSE "draft")
    IN  [heap |-> DictSet(h, NewObj, plan),
         store |-> DictSet(st, data.name, NewObj),
         ret |-> NewObj]

\* An import with a slip: a missing updated_at is not read from the clock but
\* taken from created_at.
StoreImportPlan_copied(h, st, data, t, t2) ==
    LET created_at == IF "created_at" \in DOMAIN data THEN data.created_at ELSE t
        plan == Plan(data.name, data.content, created_at,
                     IF "updated_at" \in DOMAIN data THEN data.updated_at ELSE created_at,
                     IF "status" \in DOMAIN data THEN data.status ELSE "draft")
    IN  [heap |-> DictSet(h, NewObj, plan),
         store |-> DictSet(st, plan.name, NewObj),
         ret |-> NewObj]

\* PlanStore.import_plan(data): heap and store afterwards, and the object
\* returned; data is a dict, here a record whose fields are the keys present.
\* The two defaults are two calls of datetime.utcnow(), evaluated whether the key
\* is present or not: t is the first reading of the clock and t2 the second.
StoreImportPlan(h, st, data, t, t2) ==
    LET plan == Plan(data.name, data.content,
                     IF "created_at" \in DOMAIN data THEN data.created_at ELSE t,
                     IF "updated_at" \in DOMAIN data THEN data.updated_at ELSE t2,
                     IF "status" \in DOMAIN data THEN data.status ELSE "draft")
    IN  [heap |-> DictSet(h, NewObj, plan),
         store |-> DictSet(st, plan.name, NewObj),
         ret |-> NewObj]

(* ------------------------------ Init ---------------------------------- *)

\* What `last` records of a call: the operation, the workflow called ("" for a direct
\* call on the store) and how the call ended.
Called(op, w, result) == [op |-> op, w |-> w, result |-> result]

\* What `last` records of a call on the store that only reads: the argument and
\* the value returned as well.
Returned(op, arg, result, value) ==
    [op |-> op, w |-> "", result |-> result, arg |-> arg, value |-> value]

\* PlanStore() and one PlanningWorkflow(plan_store) per workflow, just constructed.
Init ==
    /\ heap = <<>>
    /\ store = <<>>
    /\ order = <<>>
    /\ ctx = [w \in Workflows |-> NoContext]
    /\ now = 0
    /\ last = Called("__init__", "", "ok")
    /\ written = <<>>

\* The clock moves on between two readings.
Tick ==
    /\ now < MaxClock
    /\ now' = now + 1
    /\ UNCHANGED <<heap, store, order, ctx, last, written>>

(* ----------------------- PlanningWorkflow calls ----------------------- *)

start_planning(w, task_name) ==
    LET existing_plan == StoreLoadPlan(store, task_name)
    IN  /\ Leaves(heap, store, [ctx EXCEPT ![w] = start_context(task_name, existing_plan)])
        /\ last' = Called("start_planning", w, "ok")
        /\ UNCHANGED now

\* A transition with a slip: a successful transition also writes the status of
\* the new state to the store.
transition_to_persist(w, new_state) ==
    IF ~ctx[w].active \/ new_state \notin valid_transitions(ctx[w].state)
    THEN /\ last' = Called("transition_to", w, "ValueError")
         /\ UNCHANGED <<heap, store, order, ctx, now, written>>
    ELSE LET updated == StoreUpdateStatus(heap, store, ctx[w].task_name,
                                          save_status(new_state), now)
         IN  /\ Leaves(updated.heap, updated.store,
                       [ctx EXCEPT ![w].state = new_state,
                                   ![w].notes = Append(@, "Transitioned to " \o new_state)])
             /\ last' = Called("transition_to", w, "ok")
             /\ UNCHANGED now

transition_to(w, new_state) ==
    IF ~ctx[w].active
    THEN /\ last' = Called("transition_to", w, "ValueError")
         /\ UNCHANGED <<heap, store, order, ctx, now, written>>
    ELSE IF new_state \notin valid_transitions(ctx[w].state)
    THEN /\ last' = Called("transition_to", w, "ValueError")
         /\ UNCHANGED <<heap, store, order, ctx, now, written>>
    ELSE /\ ctx' = [ctx EXCEPT ![w].state = new_state,
                               ![w].notes = Append(@, "Transitioned to " \o new_state)]
         /\ last' = Called("transition_to", w, "ok")
         /\ UNCHANGED <<heap, store, order, now, written>>

\* A save with a slip: the note is put in front of the log.
save_plan_prepend(w, content) ==
    IF ~ctx[w].active
    THEN /\ last' = Called("save_plan", w, "ValueError")
         /\ UNCHANGED <<heap, store, order, ctx, now, written>>
    ELSE LET status == save_status(ctx[w].state)
             saved == StoreSavePlan(heap, store, ctx[w].task_name, content, status, now)
         IN  /\ Leaves(saved.heap, saved.store,
                       [ctx EXCEPT ![w].plan = saved.ret,
                                   ![w].notes = <<"Saved plan with status: " \o status>> \o @])
             /\ last' = Called("save_plan", w, "ok")
             /\ UNCHANGED now

save_plan(w, content) ==
    IF ~ctx[w].active
    THEN /\ last' = Called("save_plan", w, "ValueError")
         /\ UNCHANGED <<heap, store, order, ctx, now, written>>
    ELSE LET status == save_status(ctx[w].state)
             saved == StoreSavePlan(heap, store, ctx[w].task_name, content, status, now)
         IN  /\ Leaves(saved.heap, saved.store,
                       [ctx EXCEPT ![w].plan = saved.ret,
                                   ![w].notes = Append(@, "Saved plan with status: " \o status)])
             /\ last' = Called("save_plan", w, "ok")
             /\ UNCHANGED now

\* An approval with a slip: the status of the attached plan is not assigned.
approve_plan_store_only(w) ==
    IF ~ctx[w].active
    THEN /\ last' = Called("approve_plan", w, "ValueError")
         /\ UNCHANGED <<heap, store, order, ctx, now, written>>
    ELSE IF ~approve_state_ok(ctx[w])
    THEN /\ last' = Called("approve_plan", w, "ValueError")
         /\ UNCHANGED <<heap, store, order, ctx, now, written>>
    ELSE IF ~approve_has_plan(ctx[w])
    THEN /\ last' = Called("approve_plan", w, "ValueError")
         /\ UNCHANGED <<heap, store, order, ctx, now, written>>
    ELSE LET updated == StoreUpdateStatus(heap, store, ctx[w].task_name, "approved", now)
         IN  /\ Leaves(updated.heap, updated.store,
                       [ctx EXCEPT ![w].state = APPROVED,
                                   ![w].notes = Append(@, "Plan approved")])
             /\ last' = Called("approve_plan", w, "ok")
             /\ UNCHANGED now

approve_plan(w) ==
    IF ~ctx[w].active
    THEN /\ last' = Called("approve_plan", w, "ValueError")
         /\ UNCHANGED <<heap, store, order, ctx, now, written>>
    ELSE IF ~approve_state_ok(ctx[w])
    THEN /\ last' = Called("approve_plan", w, "ValueError")
         /\ UNCHANGED <<heap, store, order, ctx, now, written>>
    ELSE IF ~approve_has_plan(ctx[w])
    THEN /\ last' = Called("approve_plan", w, "ValueError")
         /\ UNCHANGED <<heap, store, order, ctx, now, written>>
    ELSE LET updated == StoreUpdateStatus(heap, store, ctx[w].task_name, "approved", now)
         IN  /\ Leaves([updated.heap EXCEPT ![ctx[w].plan].status = "approved"],
                       updated.store,
                       [ctx EXCEPT ![w].state = APPROVED,
                                   ![w].notes = Append(@, "Plan approved")])
             /\ last' = Called("approve_plan", w, "ok")
             /\ UNCHANGED now

complete_planning(w) ==
    IF ~ctx[w].active
    THEN /\ last' = Called("complete_planning", w, "ValueError")
         /\ UNCHANGED <<heap, store, order, ctx, now, written>>
    ELSE IF ctx[w].state # IMPLEMENTING
    THEN /\ last' = Called("complete_planning", w, "ValueError")
         /\ UNCHANGED <<heap, store, order, ctx, now, written>>
    ELSE LET updated == StoreUpdateStatus(heap, store, ctx[w].task_name, "completed", now)
         IN  IF ctx[w].plan = None
             THEN \* line 196 has run when line 197 finds that None has no attribute status
                  /\ Leaves(updated.heap, updated.store, ctx)
                  /\ last' = Called("complete_planning", w, "AttributeError")
                  /\ UNCHANGED now
             ELSE /\ Leaves([updated.heap EXCEPT ![ctx[w].plan].status = "completed"],
                            updated.store,
                            [ctx EXCEPT ![w].state = COMPLETED,
                                        ![w].notes = Append(@, "Planning completed")])
                  /\ last' = Called("complete_planning", w, "ok")
                  /\ UNCHANGED now

\* The heading of the prompt get_workflow_prompt keeps for each state.
prompts(state) ==
    IF state = INITIAL THEN "## Planning: Initial Phase"
    ELSE IF state = EXPLORING THEN "## Planning: Exploring Phase"
    ELSE IF state = DESIGNING THEN "## Planning: Designing Phase"
    ELSE IF state = REVIEWING THEN "## Planning: Reviewing Phase"
    ELSE IF state = APPROVED THEN "## Planning: Approved"
    ELSE IF state = IMPLEMENTING THEN "## Planning: Implementing"
    ELSE "## Planning: Completed"

\* The prompt returned is kept as the heading and the task name filled in.
get_workflow_prompt(w) ==
    /\ last' = [op |-> "get_workflow_prompt", w |-> w, result |-> "ok",
                value |-> IF ~ctx[w].active
                          THEN <<"No active planning session. Use /plan-victor to start.">>
                          ELSE <<prompts(ctx[w].state), ctx[w].task_name>>]
    /\ UNCHANGED <<heap, store, order, ctx, now, written>>

(* ------------------ direct calls on the shared PlanStore --------------- *)

\* Another holder of the store calls save_plan(name, content, status).
CallSavePlan(name, content, status) ==
    LET saved == StoreSavePlan(heap, store, name, content, status, now)
    IN  /\ Leaves(saved.heap, saved.store, ctx)
        /\ last' = Called("store.save_plan", "", "ok")
        /\ UNCHANGED now

\* Another holder of the store calls delete_plan(name).
CallDeletePlan(name) ==
    IF name \in DOMAIN store
    THEN /\ Leaves(heap, DictDel(store, name), ctx)
         /\ last' = Called("store.delete_plan", "", "True")
         /\ UNCHANGED now
    ELSE /\ last' = Called("store.delete_plan", "", "False")
         /\ UNCHANGED <<heap, store, order, ctx, now, written>>

\* Another holder of the store calls update_status(name, status).
CallUpdateStatus(name, status) ==
    LET updated == StoreUpdateStatus(heap, store, name, status, now)
    IN  /\ Leaves(updated.heap, updated.store, ctx)
        /\ last' = Called("store.update_status", "",
                          IF updated.ret = None THEN "None" ELSE "ok")
        /\ UNCHANGED now

\* Another holder of the store calls import_plan(data); the call is over within
\* one reading of the clock.
CallImportPlan(data) ==
    LET imported == StoreImportPlan(heap, store, data, now, now)
    IN  /\ Leaves(imported.heap, imported.store, ctx)
        /\ last' = Called("store.import_plan", "", "ok")
        /\ UNCHANGED now

\* new_store = PlanStore(); new_store.import_plan(data): the value kept is the
\* new store's dict after the call, name -> the Plan's fields.
NewStoreImport(data) ==
    LET imported == StoreImportPlan(<<>>, <<>>, data, now, now)
    IN  /\ last' = Returned("new_store.import_plan", data, "ok",
                            [n \in DOMAIN imported.store |->
                                imported.heap[imported.store[n]]])
        /\ UNCHANGED <<heap, store, order, ctx, now, written>>

\* Another holder of the store calls import_plan(data) and keeps the dict and the
\* plan returned; the clock reads t2 when the call reads it the second time.
CallImportPlanAt(data, t2) ==
    LET imported == StoreImportPlan(heap, store, data, now, t2)
    IN  /\ Leaves(imported.heap, imported.store, ctx)
        /\ last' = Returned("store.import_plan", data, "ok", imported.heap[imported.ret])
        /\ now' = t2

\* Another holder of the store calls load_plan(name).
CallLoadPlan(name) ==
    LET plan == StoreLoadPlan(store, name)
    IN  /\ last' = Returned("store.load_plan", name,
                            IF plan = None THEN "None" ELSE "ok", plan)
        /\ UNCHANGED <<heap, store, order, ctx, now, written>>

\* Another holder of the store calls list_plans(status).
CallListPlans(status) ==
    /\ last' = Returned("store.list_plans", status, "ok",
                        StoreListPlans(heap, store, order, status))
    /\ UNCHANGED <<heap, store, order, ctx, now, written>>

\* Another holder of the store calls export_plan(name).
CallExportPlan(name) ==
    LET data == StoreExportPlan(heap, store, name)
    IN  /\ last' = Returned("store.export_plan", name,
                            IF name \in DOMAIN store THEN "ok" ELSE "None", data)
        /\ UNCHANGED <<heap, store, order, ctx, now, written>>

(* --------------------------- specifications --------------------------- *)

\* No note log longer than k.
NotesWithin(k) == \A w \in Workflows : Len(ctx[w].notes) <= k

\* The calls a user of workflow w makes, on tasks of the set names, in sessions
\* whose note log stays within k notes.
Workflow(w, names, k) ==
    \/ \E n \in names : start_planning(w, n)
    \/ \E s \in PlanningState : transition_to(w, s) /\ NotesWithin(k)'
    \/ \E c \in Contents : save_plan(w, c) /\ NotesWithin(k)'
    \/ approve_plan(w) /\ NotesWithin(k)'
    \/ complete_planning(w) /\ NotesWithin(k)'

\* The dicts another holder of the store imports: dicts without the optional
\* keys, and what export_plan gives for a stored plan, as it is or with the name
\* field changed.
ImportInputs(names) ==
    {[name |-> n, content |-> c] : n \in names, c \in Contents}
    \cup {[StoreExportPlan(heap, store, n) EXCEPT !.name = m] :
            n \in DOMAIN store \cap names, m \in names}

\* The status filters a caller of list_plans passes: none, each status, and the
\* empty string.
StatusFilters == {NoStatus} \cup {<<s>> : s \in Statuses \cup {""}}

\* The calls of another holder of the store that only read.
Reader(names) ==
    \/ \E n \in names : CallLoadPlan(n)
    \/ \E f \in StatusFilters : CallListPlans(f)
    \/ \E n \in names : CallExportPlan(n)

\* The calls another holder of the same store makes, on plans of the set names.
OtherCaller(names) ==
    \/ \E n \in names, c \in Contents, s \in Statuses : CallSavePlan(n, c, s)
    \/ \E n \in names : CallDeletePlan(n)
    \/ \E n \in names, s \in Statuses : CallUpdateStatus(n, s)
    \/ \E d \in ImportInputs(names) : CallImportPlan(d)

\* One workflow and other callers on one store, all working on one task, within
\* one reading of the clock.
Next ==
    \/ Workflow("w1", {"feature-x"}, MaxNotes)
    \/ OtherCaller({"feature-x"})

Spec == Init /\ [][Next]_vars

\* One workflow that is the only user of its store, within one reading of the clock.
NextSolo == Workflow("w1", {"feature-x"}, MaxNotesSolo)

SpecSolo == Init /\ [][NextSolo]_vars

\* One workflow and another caller who saves plans under the workflow's task name,
\* within one reading of the clock: longer sessions than Next explores.
NextDeep ==
    \/ Workflow("w1", {"feature-x"}, MaxNotesDeep)
    \/ \E c \in Contents, s \in Statuses : CallSavePlan("feature-x", c, s)

SpecDeep == Init /\ [][NextDeep]_vars

\* Direct calls on the store alone, on two names, while the clock runs.
NextStore ==
    \/ Tick
    \/ OtherCaller({"feature-x", "task-b"})
    \/ Reader({"feature-x", "task-b"})

SpecStore == Init /\ [][NextStore]_vars

\* One workflow and another caller on one store, both working on one task, while
\* the clock runs; the other caller writes one content and imports a dict
\* without the optional keys.
NextTimed ==
    \/ Tick
    \/ Workflow("w1", {"feature-x"}, MaxNotesTimed)
    \/ \E s \in Statuses : CallSavePlan("feature-x", "v2", s)
    \/ CallDeletePlan("feature-x")
    \/ \E s \in Statuses : CallUpdateStatus("feature-x", s)
    \/ CallImportPlan([name |-> "feature-x", content |-> "v2"])

SpecTimed == Init /\ [][NextTimed]_vars

\* Plans saved and listed, and nothing else, on every name, while the clock runs:
\* save_plan(name, content) with the default status or status="approved".
NextSaves ==
    \/ Tick
    \/ \E n \in Names, s \in {"draft", "approved"} : CallSavePlan(n, "v2", s)
    \/ \E f \in StatusFilters : CallListPlans(f)

SpecSaves == Init /\ [][NextSaves]_vars

\* A key of a dict that may be left out: <<>> leaves it out, <<v>> gives it value v.
WithKey(d, k, v) == IF v = <<>> THEN d ELSE DictSet(d, k, v[1])

\* <<>> and the <<v>> for v in S.
Optional(S) == {<<>>} \cup {<<v>> : v \in S}

\* The dicts a caller imports: name and content, and any of status, created_at
\* and updated_at; a timestamp given is that of the store's construction.
ImportDicts(names) ==
    {WithKey(WithKey(WithKey([name |-> n, content |-> "v2"], "status", s),
                     "created_at", ca), "updated_at", ua) :
        n \in names, s \in Optional(Statuses), ca \in Optional({0}),
        ua \in Optional({0})}

\* The readings the clock can give next: the present one or a later one.
Readings == {t \in {now, now + 1} : t <= MaxClock}

\* Plans saved, imported and loaded on two names, while the clock runs, also
\* between the two readings an import makes.
NextImport ==
    \/ Tick
    \/ \E n \in {"feature-x", "task-b"} : CallSavePlan(n, "draft text", "draft")
    \/ \E d \in ImportDicts({"feature-x", "task-b"}), t2 \in Readings :
          CallImportPlanAt(d, t2)
    \/ \E n \in {"feature-x", "task-b"} : CallLoadPlan(n)

SpecImport == Init /\ [][NextImport]_vars

\* One workflow that is the only user of its store and asks for the prompt of its
\* state, within one reading of the clock.
NextPrompt ==
    \/ Workflow("w1", {"feature-x"}, MaxNotesDeep)
    \/ get_workflow_prompt("w1")

SpecPrompt == Init /\ [][NextPrompt]_vars

\* Two workflows on one store, both working on one task, each saving a content of
\* its own, and another holder of the store who deletes the plan, while the clock
\* runs.
NextPair ==
    \/ Tick
    \/ start_planning("w1", "feature-x")
    \/ \E s \in PlanningState : transition_to("w1", s) /\ NotesWithin(MaxNotesPair)'
    \/ save_plan("w1", "draft text") /\ NotesWithin(MaxNotesPair)'
    \/ approve_plan("w1") /\ NotesWithin(MaxNotesPair)'
    \/ start_planning("w2", "feature-x")
    \/ save_plan("w2", "v2") /\ NotesWithin(MaxNotesPair)'
    \/ approve_plan("w2") /\ NotesWithin(MaxNotesPair)'
    \/ CallDeletePlan("feature-x")

SpecPair == Init /\ [][NextPair]_vars

\* Two workflows on one store, each working on a task of its own, and another
\* holder of the store who imports and deletes plans under both names, within
\* one reading of the clock.
NextApart ==
    \/ start_planning("w1", "feature-x")
    \/ \E s \in PlanningState : transition_to("w1", s) /\ NotesWithin(MaxNotesPair)'
    \/ save_plan("w1", "draft text") /\ NotesWithin(MaxNotesPair)'
    \/ approve_plan("w1") /\ NotesWithin(MaxNotesPair)'
    \/ start_planning("w2", "task-b")
    \/ save_plan("w2", "v2") /\ NotesWithin(MaxNotesPair)'
    \/ approve_plan("w2") /\ NotesWithin(MaxNotesPair)'
    \/ \E n \in {"feature-x", "task-b"} :
          \/ CallDeletePlan(n)
          \/ CallImportPlan([name |-> n, content |-> "draft text"])

SpecApart == Init /\ [][NextApart]_vars

\* One workflow that is the only user of its store, while the clock runs.
NextAlone ==
    \/ Tick
    \/ Workflow("w1", {"feature-x"}, MaxNotesTimed)

SpecAlone == Init /\ [][NextAlone]_vars

\* The last call was an export_plan that returned a dict.
Exported == last.op = "store.export_plan" /\ last.result = "ok"

\* Plans saved on two names and exported, and the dict just exported imported:
\* into the same store under either name, or into a new store.
NextExport ==
    \/ Tick
    \/ \E n \in {"feature-x", "task-b"}, c \in Contents, s \in Statuses :
          CallSavePlan(n, c, s)
    \/ \E n \in {"feature-x", "task-b"} : CallExportPlan(n)
    \/ \E m \in {"feature-x", "task-b"} :
          Exported /\ CallImportPlan([last.value EXCEPT !.name = m])
    \/ Exported /\ NewStoreImport(last.value)

SpecExport == Init /\ [][NextExport]_vars

(* ------------------------------- claims ------------------------------- *)

\* The transition table as the specification states it (from -> allowed to).
AllowedTo(s) ==
    IF s = "initial" THEN {"exploring"}
    ELSE IF s = "exploring" THEN {"designing"}
    ELSE IF s = "designing" THEN {"reviewing", "exploring"}
    ELSE IF s = "reviewing" THEN {"approved", "designing"}
    ELSE IF s = "approved" THEN {"implementing"}
    ELSE IF s = "implementing" THEN {"completed", "reviewing"}
    ELSE {}

\* The workflow the claims are stated for, its context and the plan attached to it.
W == "w1"

C == ctx[W]

\* The store's record under name n (n must be a key of the store).
Record(n) == heap[store[n]]

\* The calls of a workflow that can fail.
FallibleOps == {"transition_to", "save_plan", "approve_plan", "complete_planning"}

\* C1: with an active context in state s, transition_to(t) succeeds exactly when t
\* is in the allowed-to set of s, and then the state becomes t; with no active
\* context it fails; right after a start on a name with no stored plan,
\* transition_to(DESIGNING) fails and transition_to(EXPLORING) succeeds.
C1_TransitionIffAllowed ==
    [][\A t \in PlanningState :
          transition_to(W, t) =>
              /\ (last'.result = "ok") <=> (C.active /\ t \in AllowedTo(C.state))
              /\ last'.result = "ok" => (ctx'[W].state = t)
              /\ ~C.active => last'.result = "ValueError"
              /\ (C.active /\ C.notes = <<"Started new planning session">>) =>
                    /\ t = "designing" => last'.result = "ValueError"
                    /\ t = "exploring" => last'.result = "ok"]_vars

\* C1 witness: transition_to(EXPLORING) has succeeded right after a start on a name
\* with no stored plan.
C1_Witness ==
    /\ last = Called("transition_to", W, "ok")
    /\ C.state = "exploring"
    /\ C.notes = <<"Started new planning session", "Transitioned to exploring">>

\* C2: every change of the context state made by transition_to, approve_plan,
\* complete_planning or save_plan follows an edge of the transition table; the
\* only other call that sets the state is start_planning, to INITIAL or REVIEWING.
C2_EveryChangeFollowsAnEdge ==
    [][/\ (ctx'[W].state # C.state /\ last'.op # "start_planning") =>
              /\ last'.w = W /\ last'.op \in FallibleOps
              /\ C.active /\ ctx'[W].state \in AllowedTo(C.state)
       /\ last'.op = "start_planning" => ctx'[W].state \in {"initial", "reviewing"}]_vars

\* C2 witness: complete_planning has changed the state, to COMPLETED.
C2_Witness ==
    /\ last = Called("complete_planning", W, "ok")
    /\ C.state = "completed"

\* C3: start_planning(n) never fails and replaces the active context: if the store
\* holds a record under n, by REVIEWING with that record attached, carrying the
\* content and status last written under n, and the one note of a loaded plan;
\* otherwise by INITIAL with no plan and the one note of a new session.
C3_StartPlanning ==
    [][\A n \in Names :
          start_planning(W, n) =>
              /\ last'.result = "ok"
              /\ ctx'[W].active /\ ctx'[W].task_name = n
              /\ IF n \in DOMAIN store
                 THEN /\ ctx'[W].state = "reviewing"
                      /\ ctx'[W].plan # None /\ ctx'[W].plan = store'[n]
                      /\ heap'[store'[n]] = heap[store[n]]
                      /\ heap'[ctx'[W].plan].content = written[n].content
                      /\ heap'[ctx'[W].plan].status = written[n].status
                      /\ ctx'[W].notes = <<"Loaded existing plan from memory-keeper">>
                 ELSE /\ ctx'[W].state = "initial"
                      /\ ctx'[W].plan = None
                      /\ ctx'[W].notes = <<"Started new planning session">>]_vars

\* C3 witness: a start has found a stored record whose status is "completed" and
\* has put the context in REVIEWING with that record attached.
C3_Witness ==
    /\ last = Called("start_planning", W, "ok")
    /\ C.state = "reviewing"
    /\ C.plan # None /\ heap[C.plan].status = "completed"
    /\ C.notes = <<"Loaded existing plan from memory-keeper">>

\* C4: approve_plan succeeds exactly when a context is active, its state is
\* REVIEWING and a plan is attached; otherwise it fails with a ValueError.
C4_ApproveIffReviewingWithPlan ==
    [][approve_plan(W) =>
          /\ (last'.result = "ok") <=>
                 (C.active /\ C.state = "reviewing" /\ C.plan # None)
          /\ last'.result \in {"ok", "ValueError"}]_vars

\* C4 witness: approve_plan has failed in REVIEWING with no plan attached.
C4_Witness ==
    /\ last = Called("approve_plan", W, "ValueError")
    /\ C.active /\ C.state = "reviewing" /\ C.plan = None

\* C5: right after every successful approve_plan the store holds a record under
\* the task name with status "approved", the attached plan's status is
\* "approved" and the state is APPROVED, whatever other callers did to the store.
C5_ApprovedInStore ==
    last = Called("approve_plan", W, "ok") =>
        /\ C.state = "approved"
        /\ heap[C.plan].status = "approved"
        /\ C.task_name \in DOMAIN store
        /\ Record(C.task_name).status = "approved"

\* C6: complete_planning fails only with no active context or a state other
\* than IMPLEMENTING; in IMPLEMENTING, however reached, it succeeds, sets the
\* store record's and the attached plan's status to "completed" and the state
\* to COMPLETED.
C6_CompleteIffImplementing ==
    [][complete_planning(W) =>
          /\ (last'.result = "ok") <=> (C.active /\ C.state = "implementing")
          /\ last'.result = "ok" =>
                 /\ ctx'[W].state = "completed"
                 /\ ctx'[W].plan # None /\ heap'[ctx'[W].plan].status = "completed"
                 /\ C.task_name \in DOMAIN store'
                 /\ heap'[store'[C.task_name]].status = "completed"]_vars

\* The status the specification gives a plan saved in state s.
StatusFor(s) ==
    IF s = "approved" THEN "approved" ELSE IF s = "completed" THEN "completed" ELSE "draft"

\* C7: with an active context save_plan(content) succeeds in every state, writes
\* the record under the task name with that content and the status the state
\* gives, attaches that record and leaves the state; with no context it fails and
\* writes nothing.
C7_SavePlan ==
    [][\A c \in Contents :
          save_plan(W, c) =>
              IF C.active
              THEN /\ last'.result = "ok"
                   /\ C.task_name \in DOMAIN store'
                   /\ heap'[store'[C.task_name]].name = C.task_name
                   /\ heap'[store'[C.task_name]].content = c
                   /\ heap'[store'[C.task_name]].status = StatusFor(C.state)
                   /\ ctx'[W].plan = store'[C.task_name]
                   /\ ctx'[W].state = C.state
                   /\ ctx'[W].task_name = C.task_name
              ELSE /\ last'.result = "ValueError"
                   /\ UNCHANGED <<heap, store, ctx>>]_vars

\* C7 witness: a plan has been saved in state COMPLETED, with status "completed".
C7_Witness ==
    /\ last = Called("save_plan", W, "ok")
    /\ C.state = "completed"
    /\ C.plan = store[C.task_name]
    /\ Record(C.task_name).status = "completed"
    /\ Record(C.task_name).content = "v2"

\* The note log of the end-to-end scenario, and the state and the plan status
\* the scenario expects after each of its steps.
E2ENotes ==
    <<"Started new planning session", "Transitioned to exploring",
      "Transitioned to designing", "Saved plan with status: draft",
      "Transitioned to reviewing", "Plan approved", "Transitioned to implementing",
      "Planning completed">>

E2EState ==
    <<"initial", "exploring", "designing", "designing", "reviewing", "approved",
      "implementing", "completed">>

E2EStatus ==
    <<"", "", "", "draft", "draft", "approved", "approved", "completed">>

\* The scenario's k-th call (the start is call 0).
E2ECall(k) ==
    CASE k = 0 -> start_planning(W, "feature-x")
      [] k = 1 -> transition_to(W, EXPLORING)
      [] k = 2 -> transition_to(W, DESIGNING)
      [] k = 3 -> save_plan(W, "draft text")
      [] k = 4 -> transition_to(W, REVIEWING)
      [] k = 5 -> approve_plan(W)
      [] k = 6 -> transition_to(W, IMPLEMENTING)
      [] k = 7 -> complete_planning(W)

\* The scenario has made its calls 0 .. k-1 and stands where it expects to.
E2EAfter(k) ==
    IF k = 0 THEN store = <<>>
    ELSE /\ C.active /\ C.task_name = "feature-x"
         /\ C.notes = SubSeq(E2ENotes, 1, k)
         /\ C.state = E2EState[k]
         /\ IF k < 4
            THEN C.plan = None /\ store = <<>>
            ELSE /\ C.plan # None
                 /\ heap[C.plan].status = E2EStatus[k]
                 /\ heap[C.plan].content = "draft text"
                 /\ "feature-x" \in DOMAIN store
                 /\ Record("feature-x").status = E2EStatus[k]
                 /\ Record("feature-x").content = "draft text"

\* C8: on a fresh store every call of the scenario start("feature-x"), EXPLORING,
\* DESIGNING, save("draft text"), REVIEWING, approve, IMPLEMENTING, complete
\* succeeds and leaves the state and the plan status (in the context and in the
\* store) the scenario expects: draft after the save, APPROVED and approved after
\* approve, COMPLETED and completed after complete.
C8_EndToEnd ==
    [][\A k \in 0 .. 7 :
          (E2EAfter(k) /\ E2ECall(k)) => (last'.result = "ok" /\ E2EAfter(k + 1)')]_vars

\* C8 witness: the scenario has run to its end.
C8_Witness ==
    /\ last = Called("complete_planning", W, "ok")
    /\ E2EAfter(8)

\* C9: once the state is COMPLETED it stays COMPLETED under every call but
\* start_planning, and transition_to, approve_plan and complete_planning fail.
C9_CompletedIsTerminal ==
    [][(C.active /\ C.state = "completed" /\ last'.op # "start_planning") =>
          /\ ctx'[W].active /\ ctx'[W].state = "completed"
          /\ (last'.w = W /\ last'.op \in FallibleOps \ {"save_plan"}) =>
                 last'.result = "ValueError"]_vars

\* C9 witness: in COMPLETED a plan was saved and then a transition_to has failed.
C9_Witness ==
    /\ last = Called("transition_to", W, "ValueError")
    /\ C.state = "completed"
    /\ C.notes[Len(C.notes)] = "Saved plan with status: completed"

\* C10: a failing workflow call leaves the context and the store as they were,
\* also when other callers wrote to the store between the workflow's calls.
C10_FailureChangesNothing ==
    [][(last'.w = W /\ last'.op \in FallibleOps /\ last'.result # "ok") =>
          UNCHANGED <<heap, store, ctx>>]_vars

\* C11: transition_to, whether it succeeds or fails, leaves the store as it is (no
\* record created, removed or modified, no timestamp refreshed) and changes neither
\* which plan is attached to the context nor any field of that plan.
C11_TransitionLeavesStore ==
    [][\A t \in PlanningState :
          transition_to(W, t) =>
              /\ UNCHANGED <<heap, store>>
              /\ ctx'[W].plan = C.plan
              /\ ctx'[W].task_name = C.task_name]_vars

\* C11 witness: a transition has succeeded with a plan attached that is the store's
\* record under the task name, written before the clock moved on.
C11_Witness ==
    /\ last = Called("transition_to", W, "ok")
    /\ C.plan # None /\ C.task_name \in DOMAIN store /\ store[C.task_name] = C.plan
    /\ heap[C.plan].updated_at < now

\* The calls that reach PlanStore.save_plan: directly, through update_status or
\* through the workflow.
SaveOps ==
    {"store.save_plan", "store.update_status", "save_plan", "approve_plan",
     "complete_planning"}

\* C12: a save of a name that has a record (through save_plan itself, through
\* update_status or through the workflow) keeps the record's created_at and does
\* not lower its updated_at, the clock never going backwards; so from the first
\* save on, until a delete or an import of the name, created_at stays what the
\* first save set.
C12_SaveKeepsCreatedAt ==
    [][last'.op \in SaveOps =>
          \A n \in DOMAIN store :
              /\ n \in DOMAIN store'
              /\ heap'[store'[n]].created_at = Record(n).created_at
              /\ heap'[store'[n]].updated_at >= Record(n).updated_at]_vars

\* C12 witness: the workflow has saved a name again after the clock moved on: the
\* record carries the first save's created_at and a later updated_at.
C12_Witness ==
    /\ last = Called("save_plan", W, "ok")
    /\ C.task_name \in DOMAIN store
    /\ Record(C.task_name).created_at < Record(C.task_name).updated_at

\* C13: created_at is set once: under every store call other than delete_plan
\* (save_plan, update_status, import_plan, export_plan, load_plan, list_plans) a
\* record that exists under a name stays, keeps its created_at, and its updated_at
\* does not decrease.
C13_CreatedAtSetOnce ==
    [][last'.op # "store.delete_plan" =>
          \A n \in DOMAIN store :
              /\ n \in DOMAIN store'
              /\ heap'[store'[n]].created_at = Record(n).created_at
              /\ heap'[store'[n]].updated_at >= Record(n).updated_at]_vars

\* The store as a caller sees it: the records, their fields and the keys' order.
StoreState == <<heap, store, order>>

\* This step is the call A, which `last` records under the name op.
Step(op, A) == last'.op = op /\ A

\* C14: on a name that has no record, load_plan, update_status and export_plan
\* return None and delete_plan returns False, none raises and none changes the
\* store (update_status creates no record); on a name that has a record,
\* load_plan returns that record, with the content and status last written.
C14_AbsentIsNotAnError ==
    [][last'.op \in {"store.load_plan", "store.export_plan", "store.delete_plan",
                    "store.update_status"} =>
          \A n \in Names :
              /\ n \notin DOMAIN store =>
                    /\ Step("store.load_plan", CallLoadPlan(n)) => (last'.result = "None" /\ UNCHANGED StoreState)
                    /\ Step("store.export_plan", CallExportPlan(n)) => (last'.result = "None" /\ UNCHANGED StoreState)
                    /\ Step("store.delete_plan", CallDeletePlan(n)) => (last'.result = "False" /\ UNCHANGED StoreState)
                    /\ \A s \in Statuses :
                          Step("store.update_status", CallUpdateStatus(n, s)) =>
                              (last'.result = "None" /\ UNCHANGED StoreState
                               /\ n \notin DOMAIN store')
              /\ n \in DOMAIN store =>
                    (Step("store.load_plan", CallLoadPlan(n)) =>
                        /\ last'.result = "ok" /\ last'.value = store[n]
                        /\ heap[last'.value].name = n
                        /\ heap[last'.value].content = written[n].content
                        /\ heap[last'.value].status = written[n].status
                        /\ UNCHANGED StoreState)]_vars

\* C14 witness: update_status has returned None for a name without a record while
\* the store holds a record under another name.
C14_Witness ==
    /\ last = Called("store.update_status", "", "None")
    /\ Len(order) = 1

\* C15: delete_plan(n) returns True exactly when n has a record, and afterwards n
\* has none while every other record is as before; a name without a record gets
\* one only by save_plan or import_plan, so further deletes return False until
\* then; load_plan returns None exactly for the names without a record.
C15_DeleteOnce ==
    [][/\ \A n \in Names :
             /\ Step("store.delete_plan", CallDeletePlan(n)) =>
                   /\ (last'.result = "True") <=> (n \in DOMAIN store)
                   /\ last'.result \in {"True", "False"}
                   /\ n \notin DOMAIN store'
                   /\ \A m \in DOMAIN store \ {n} :
                         m \in DOMAIN store' /\ heap'[store'[m]] = Record(m)
             /\ Step("store.load_plan", CallLoadPlan(n)) => ((last'.result = "None") <=> (n \notin DOMAIN store))
             /\ (n \notin DOMAIN store /\ n \in DOMAIN store') =>
                   last'.op \in {"store.save_plan", "store.import_plan"}
       ]_vars

\* C15 witness: a delete has returned True and removed one of two records.
C15_Witness ==
    /\ last = Called("store.delete_plan", "", "True")
    /\ Len(order) = 1

\* The objects a list holds.
Elements(seq) == {seq[i] : i \in DOMAIN seq}

\* The stored objects whose status is s.
WithStatus(s) == {store[n] : n \in {m \in DOMAIN store : Record(m).status = s}}

\* C16: for every status string s, list_plans(status=s) returns exactly the
\* stored records whose status is s, each once; list_plans() returns every stored
\* record, each once.
C16_ListFilter ==
    last.op = "store.list_plans" =>
        /\ \A i, j \in DOMAIN last.value : last.value[i] = last.value[j] => i = j
        /\ Elements(last.value) =
               IF last.arg = NoStatus THEN {store[n] : n \in DOMAIN store}
               ELSE WithStatus(last.arg[1])

\* C17: the list list_plans returns, with or without a status filter, is in
\* descending order of updated_at: no element is older than the one after it.
C17_ListOrdered ==
    last.op = "store.list_plans" =>
        \A i \in 1 .. (Len(last.value) - 1) :
            heap[last.value[i]].updated_at >= heap[last.value[i + 1]].updated_at

\* C17 witness: a filtered list of two plans of which the newer one is the later
\* key of the dict: the list has them the other way round than the dict.
C17_Witness ==
    /\ last.op = "store.list_plans" /\ last.arg = <<"approved">>
    /\ Len(last.value) = 2 /\ Len(order) = 3
    /\ heap[last.value[1]].updated_at > heap[last.value[2]].updated_at
    /\ \E i, j \in DOMAIN order :
          i < j /\ store[order[i]] = last.value[2] /\ store[order[j]] = last.value[1]

\* What list_plans() with no filter returns in the current state.
ListAll == StoreListPlans(heap, store, order, NoStatus)

\* The names whose record was written at the current clock reading, in the
\* order of the dict's keys.
SavedNow == SelectSeq(order, LAMBDA k : Record(k).updated_at = now)

\* C18 as stated: right after every save_plan(n, ...) of a sequence of saves, on
\* a clock that never goes backwards but may give consecutive saves the same
\* reading, the plan just saved is the first element of list_plans().
C18_NewestFirst ==
    [][\A n \in Names, s \in Statuses :
          CallSavePlan(n, "v2", s) => ListAll'[1] = store'[n]]_vars

\* C18 amended (a step of the clock leaves `last` as it is, a call leaves the
\* clock as it is): right after every save_plan(n, ...) of a sequence of saves the first
\* element of list_plans() is a plan saved at the current clock reading: the plan
\* just saved if the clock has moved on since every other plan's last save, and
\* otherwise, of the plans saved at this reading, the one whose key entered the
\* store first; in particular after plan-1, plan-2, plan-1 again (two keys, the
\* plan just saved being the first of them) the plan just saved is first.
C18_NewestFirstUnlessTied ==
    [][(last'.op = "store.save_plan" /\ now' = now) =>
          \A first \in {ListAll'[1]} :
              /\ heap'[first].updated_at = now
              /\ first = store'[SavedNow'[1]]
              /\ \A n \in Names :
                    (\/ \A m \in DOMAIN store' \ {n} : heap'[store'[m]].updated_at < now
                     \/ Len(order) = 2 /\ order[1] = n) =>
                        ((\E s \in Statuses : CallSavePlan(n, "v2", s)) =>
                            first = store'[n])]_vars

\* C18 witness: a plan has just been saved after the clock moved on since the
\* saves of two other plans, whose keys come before its key in the dict.
C18_Witness ==
    /\ last = Called("store.save_plan", "", "ok")
    /\ Len(order) = 3
    /\ Record(order[3]).updated_at = now
    /\ Record(order[1]).updated_at < now /\ Record(order[2]).updated_at < now
    /\ ListAll[1] = store[order[3]]

\* C19: update_status(n, s) on a name that has a record succeeds and leaves the
\* store as load_plan(n) followed by save_plan(n, the loaded content, s) leaves
\* it: the record under n has the content it had, status s, the created_at it had
\* and updated_at set to the clock reading; no other record and no key changes.
C19_UpdateStatusIsLoadThenSave ==
    [][last'.op = "store.update_status" =>
          \A n \in DOMAIN store, s \in Statuses :
              Step("store.update_status", CallUpdateStatus(n, s)) =>
                  LET loaded == StoreLoadPlan(store, n)
                      saved == StoreSavePlan(heap, store, n, heap[loaded].content, s, now)
                      after == Collect(saved.heap, saved.store, ctx)
                  IN  /\ last'.result = "ok"
                      /\ heap' = after.heap /\ store' = after.store
                      /\ heap'[store'[n]] =
                             Plan(n, Record(n).content, Record(n).created_at, now, s)
                      /\ DOMAIN store' = DOMAIN store /\ order' = order
                      /\ \A m \in DOMAIN store \ {n} : heap'[store'[m]] = Record(m)]_vars

\* C19 witness: update_status has set the status of a plan saved at an earlier
\* clock reading, while the store holds a second plan, written later than the
\* first one was created.
C19_Witness ==
    /\ last = Called("store.update_status", "", "ok")
    /\ Len(order) = 2
    /\ \E n \in DOMAIN store :
          /\ Record(n).status = "completed" /\ Record(n).content = "draft text"
          /\ Record(n).created_at < now /\ Record(n).updated_at = now
          /\ \A m \in DOMAIN store \ {n} : Record(m).updated_at < now

\* C20: importing the dict export_plan(n) returned, into the same store with the
\* name field changed or into a new store as it is, gives a record with the
\* original's content and status, and the exported created_at and updated_at,
\* which are the original's; the original under n stays as it was.
C20_ExportImportRoundTrip ==
    [][Exported =>
          /\ \A m \in Names \ {last.arg} :
                Step("store.import_plan",
                     CallImportPlan([last.value EXCEPT !.name = m])) =>
                    /\ m \in DOMAIN store' /\ last.arg \in DOMAIN store'
                    /\ heap'[store'[m]].name = m
                    /\ heap'[store'[m]].content = Record(last.arg).content
                    /\ heap'[store'[m]].status = Record(last.arg).status
                    /\ heap'[store'[m]].created_at = last.value.created_at
                    /\ heap'[store'[m]].updated_at = last.value.updated_at
                    /\ last.value.created_at = Record(last.arg).created_at
                    /\ last.value.updated_at = Record(last.arg).updated_at
                    /\ heap'[store'[last.arg]] = Record(last.arg)
          /\ Step("new_store.import_plan", NewStoreImport(last.value)) =>
                /\ DOMAIN last'.value = {last.arg}
                /\ last'.value[last.arg] = Record(last.arg)
                /\ UNCHANGED StoreState]_vars

\* C20 witness: an exported plan, approved and updated after it was created, has
\* been imported into the same store under the other name: the two records
\* agree in everything but the name.
C20_Witness ==
    /\ last = Called("store.import_plan", "", "ok")
    /\ DOMAIN store = {"feature-x", "task-b"}
    /\ Record("task-b") = [Record("feature-x") EXCEPT !.name = "task-b"]
    /\ Record("feature-x").status = "approved"
    /\ Record("feature-x").created_at < Record("feature-x").updated_at

\* The last call recorded in `last` (or in last') is an import_plan whose dict
\* was kept.
ImportKept(l) == l.op = "store.import_plan" /\ "arg" \in DOMAIN l

\* C21: import_plan(data) stores a plan under data's name whatever was stored
\* there: name, content and every optional key present are stored as given, a
\* missing status is "draft", a missing created_at or updated_at is a reading the
\* clock gave during the call; the plan is returned, and a load_plan of that name
\* after the import returns it.
C21_ImportPlan ==
    [][/\ ImportKept(last') =>
             (CallImportPlanAt(last'.arg, now') =>
                 \A d \in {last'.arg} :
                     /\ d.name \in DOMAIN store'
                     /\ last'.value = heap'[store'[d.name]]
                     /\ last'.value.name = d.name
                     /\ last'.value.content = d.content
                     /\ last'.value.status =
                            IF "status" \in DOMAIN d THEN d.status ELSE "draft"
                     /\ IF "created_at" \in DOMAIN d
                        THEN last'.value.created_at = d.created_at
                        ELSE last'.value.created_at \in now .. now'
                     /\ IF "updated_at" \in DOMAIN d
                        THEN last'.value.updated_at = d.updated_at
                        ELSE last'.value.updated_at \in now .. now')
       /\ ImportKept(last) =>
             (Step("store.load_plan", CallLoadPlan(last.arg.name)) =>
                 (last'.result = "ok" /\ heap'[last'.value] = last.value))]_vars

\* C21 witness: a dict with a status and without timestamps has been imported
\* into a store of two names, the clock moving on between the two readings.
C21_Witness ==
    /\ ImportKept(last)
    /\ DOMAIN last.arg = {"name", "content", "status"} /\ last.arg.status = "completed"
    /\ written[last.arg.name] = [content |-> "v2", status |-> "completed"]
    /\ Record(last.arg.name).created_at < Record(last.arg.name).updated_at
    /\ Len(order) = 2

\* C22: the note log of a session only grows at its end: a successful
\* transition_to, save_plan, approve_plan or complete_planning appends exactly one
\* note and leaves the earlier notes as they were, in their order; a failed call
\* and get_workflow_prompt leave the log as it was; start_planning begins a log of
\* one note, so the log holds the start's note and one note per successful call.
C22_NotesAppendOnly ==
    [][/\ \A t \in PlanningState, c \in Contents :
              (\/ transition_to(W, t)
               \/ save_plan(W, c)
               \/ approve_plan(W)
               \/ complete_planning(W)) =>
                  IF last'.result = "ok"
                  THEN /\ Len(ctx'[W].notes) = Len(C.notes) + 1
                       /\ SubSeq(ctx'[W].notes, 1, Len(C.notes)) = C.notes
                  ELSE ctx'[W].notes = C.notes
       /\ get_workflow_prompt(W) => ctx'[W].notes = C.notes
       /\ \A n \in Names : start_planning(W, n) => Len(ctx'[W].notes) = 1]_vars

\* C22 witness: a session started on a stored plan has been approved, taken to
\* implementing and completed: four notes, in the order of the calls.
C22_Witness ==
    /\ last = Called("complete_planning", W, "ok")
    /\ C.notes = <<"Loaded existing plan from memory-keeper", "Plan approved",
                   "Transitioned to implementing", "Planning completed">>

\* The fields of the records of the store, by name.
Records == [n \in DOMAIN store |-> heap[store[n]]]

\* C23: on a store two workflows share, working on one name, every write is whole
\* and the last one wins: a save_plan leaves a record with the content saved and
\* the status of the saving workflow's state, an approve_plan leaves the stored
\* content with status "approved"; created_at is that of the record written over,
\* or the time of the write if the name was absent; a write never removes the
\* record, and no call other than a write or a delete changes it.
C23_LastWriteWins ==
    [][\A w \in Workflows : \A n \in {ctx[w].task_name} :
          /\ \A c \in Contents :
                (last'.w = w /\ last'.result = "ok" /\ Step("save_plan", save_plan(w, c))) =>
                    /\ n \in DOMAIN store'
                    /\ Records'[n] =
                           Plan(n, c,
                                IF n \in DOMAIN store THEN Records[n].created_at ELSE now,
                                now, save_status(ctx[w].state))
          /\ (last'.w = w /\ last'.result = "ok" /\ Step("approve_plan", approve_plan(w))) =>
                 IF n \in DOMAIN store
                 THEN /\ n \in DOMAIN store'
                      /\ Records'[n] = [Records[n] EXCEPT !.status = "approved",
                                                          !.updated_at = now]
                 ELSE Records' = Records
          /\ (/\ last'.w = w
              /\ \/ last'.result # "ok"
                 \/ last'.op \in {"start_planning", "transition_to"}
              /\ now' = now) => Records' = Records]_vars

\* C23 witness: the second workflow has approved the plan the first one saved
\* after the second had saved its own, later than the record was created: the
\* record holds the first workflow's content, with status "approved".
C23_Witness ==
    /\ last = Called("approve_plan", "w2", "ok")
    /\ "feature-x" \in DOMAIN store
    /\ Record("feature-x").content = "draft text"
    /\ Record("feature-x").status = "approved"
    /\ Record("feature-x").created_at < Record("feature-x").updated_at
    /\ ctx["w1"].plan # None /\ heap[ctx["w1"].plan].content = "draft text"
    /\ ctx["w2"].plan # None /\ heap[ctx["w2"].plan].content = "v2"

\* What a workflow's context holds, the plan attached by its fields.
View(w) == [ctx[w] EXCEPT !.plan = IF @ = None THEN <<>> ELSE <<heap[@]>>]

\* Name m is stored after the step iff it was before, with the same fields.
Untouched(m) ==
    /\ m \in DOMAIN store' <=> m \in DOMAIN store
    /\ m \in DOMAIN store => Records'[m] = Records[m]

\* C24: tasks apart do not interfere: a delete_plan or import_plan on name n,
\* and every call of a workflow (whose save_plan and update_status are on its task
\* name), leaves the records under every other name as they were; a call of one
\* workflow leaves the context of the other workflow, on another task name, and
\* the plan attached to it as they were.
C24_NoInterference ==
    [][/\ \A n \in Names :
              (\/ Step("store.delete_plan", CallDeletePlan(n))
               \/ Step("store.import_plan",
                       CallImportPlan([name |-> n, content |-> "draft text"]))) =>
                  \A m \in Names \ {n} : Untouched(m)
       /\ \A w \in Workflows :
              last'.w = w =>
                  /\ \A m \in Names \ {ctx'[w].task_name} : Untouched(m)
                  /\ \A v \in Workflows \ {w} : View(v)' = View(v)]_vars

\* C24 witness: the first workflow has approved its plan while the second, on
\* another task, holds the draft it saved, which is stored as it was saved.
C24_Witness ==
    /\ last = Called("approve_plan", "w1", "ok")
    /\ DOMAIN store = {"feature-x", "task-b"}
    /\ Record("feature-x").status = "approved"
    /\ ctx["w2"].plan = store["task-b"]
    /\ Record("task-b") = Plan("task-b", "v2", 0, 0, "draft")
    /\ ctx["w2"].notes = <<"Started new planning session", "Saved plan with status: draft">>

\* C25: plan status and context state stay in sync: whenever the context state is
\* APPROVED a plan is attached and its status is "approved", and whenever it is
\* COMPLETED a plan is attached and its status is "completed".
C25_StatusFollowsState ==
    /\ (C.active /\ C.state = APPROVED) =>
           (C.plan # None /\ heap[C.plan].status = "approved")
    /\ (C.active /\ C.state = COMPLETED) =>
           (C.plan # None /\ heap[C.plan].status = "completed")

\* C26: with one workflow as the only writer of its store, whenever a plan is
\* attached to the context the store holds a record under the context's task
\* name with the content and the status of the attached plan.
C26_AttachedPlanIsStored ==
    (C.active /\ C.plan # None) =>
        /\ C.task_name \in DOMAIN store
        /\ Record(C.task_name).content = heap[C.plan].content
        /\ Record(C.task_name).status = heap[C.plan].status

\* C26 witness: after an approval and a completion the context holds an object
\* the store has replaced since, and both are completed with the content saved.
C26_Witness ==
    /\ last = Called("complete_planning", W, "ok")
    /\ C.plan # None /\ C.plan # store[C.task_name]
    /\ heap[C.plan].status = "completed"
    /\ heap[C.plan].content = "v2"

\* C27: after a successful approve_plan or complete_planning of a workflow that is
\* the only writer of its store, the plan attached to the context equals the
\* record stored under the task name in every field, updated_at included.
C27_AttachedPlanIsCurrent ==
    (last.w = W /\ last.op \in {"approve_plan", "complete_planning"} /\ last.result = "ok") =>
        /\ C.task_name \in DOMAIN store
        /\ heap[C.plan] = Record(C.task_name)

\* approve_plan has succeeded in the session of the context: its note is in the log.
ApprovedInSession == \E i \in DOMAIN C.notes : C.notes[i] = "Plan approved"

\* C28: approval is not undone within a session: once approve_plan has succeeded,
\* the status stored under the task name is "approved" or, later, "completed",
\* whatever transition_to, save_plan and complete_planning calls follow in the
\* session; it is never "draft" again.
C28_ApprovalStays ==
    (C.active /\ ApprovedInSession) =>
        /\ C.task_name \in DOMAIN store
        /\ Record(C.task_name).status \in {"approved", "completed"}

\* C29: names agree everywhere: the record stored under key k has name k, and a
\* plan attached to a context has the context's task name as its name.
C29_NamesAgree ==
    /\ \A k \in DOMAIN store : Record(k).name = k
    /\ \A w \in Workflows :
          (ctx[w].active /\ ctx[w].plan # None) => heap[ctx[w].plan].name = ctx[w].task_name

\* C29 witness: both names are stored, each workflow holds a plan of its task,
\* and the first one's is an object an import has replaced in the store.
C29_Witness ==
    /\ last = Called("store.import_plan", "", "ok")
    /\ DOMAIN store = {"feature-x", "task-b"}
    /\ ctx["w1"].plan # None /\ ctx["w1"].plan # store["feature-x"]
    /\ ctx["w2"].plan = store["task-b"]
    /\ ctx["w1"].state = APPROVED

\* The notes that record that a session has entered state s.
EntryNotes(s) ==
    {"Transitioned to " \o s}
    \cup (IF s = APPROVED THEN {"Plan approved"} ELSE {})
    \cup (IF s = COMPLETED THEN {"Planning completed"} ELSE {})

\* The place in the session's log of the first entry into state s, 0 if none.
FirstEntry(s) ==
    LET at == {i \in DOMAIN C.notes : C.notes[i] \in EntryNotes(s)}
    IN  IF at = {} THEN 0 ELSE CHOOSE i \in at : \A j \in at : i <= j

\* C30: within a session the context enters APPROVED only from REVIEWING,
\* IMPLEMENTING only from APPROVED and COMPLETED only from IMPLEMENTING; and in a
\* session started on a name with no stored plan the state is COMPLETED only
\* after EXPLORING, DESIGNING, REVIEWING, APPROVED and IMPLEMENTING have been
\* entered, first reached in that order.
C30_PhasesInOrder ==
    [][/\ (last'.op # "start_planning" /\ ctx'[W].state # C.state) =>
              /\ ctx'[W].state = APPROVED => C.state = REVIEWING
              /\ ctx'[W].state = IMPLEMENTING => C.state = APPROVED
              /\ ctx'[W].state = COMPLETED => C.state = IMPLEMENTING
       /\ (/\ ctx'[W].state = COMPLETED
           /\ ctx'[W].notes[1] = "Started new planning session") =>
              /\ 0 < FirstEntry(EXPLORING)'
              /\ FirstEntry(EXPLORING)' < FirstEntry(DESIGNING)'
              /\ FirstEntry(DESIGNING)' < FirstEntry(REVIEWING)'
              /\ FirstEntry(REVIEWING)' < FirstEntry(APPROVED)'
              /\ FirstEntry(APPROVED)' < FirstEntry(IMPLEMENTING)'
              /\ FirstEntry(IMPLEMENTING)' < FirstEntry(COMPLETED)']_vars

\* C30 witness: a session started on a name with no stored plan has been
\* completed in eight notes, the plan saved while reviewing and APPROVED entered
\* after it.
C30_Witness ==
    /\ last = Called("complete_planning", W, "ok")
    /\ C.state = COMPLETED
    /\ C.notes[1] = "Started new planning session"
    /\ Len(C.notes) = 8
    /\ FirstEntry(APPROVED) = 6

=============================================================================
